---- MODULE Spec2Model ----
(***************************************************************************)
(* A model of the nfnt/resize package: the two-pass Resize of resize.go    *)
(* (dispatcher, row-band workers, completion channel), the filter of       *)
(* filters.go (SetKernelWeights / Interpolate / convolution1d and the      *)
(* kernels), the pixel converters and Crop.                                *)
(*                                                                         *)
(* All float32 arithmetic of the Go code is modelled bit-exactly: a        *)
(* float32 is a pair <<M, e>> standing for M * 2^e, with M a signed 24-bit *)
(* significand (2^23 <= |M| < 2^24, or M = 0) and every operation rounded  *)
(* to nearest, ties to even, as IEEE-754 binary32 does.  Negative zero,    *)
(* subnormals and exponent overflow do not occur in the computations of    *)
(* the package for the modelled inputs and are not represented.  Every     *)
(* product and sum is rounded on its own, as on amd64; a build that fuses  *)
(* a multiplication with an addition (arm64) is not modelled.  The float64 *)
(* divisions of Crop are modelled the same way, on positive values.        *)
(*                                                                         *)
(* A raster is kept line by line, each line as its runs of equal pixels.   *)
(***************************************************************************)
EXTENDS Integers, Sequences, FiniteSets, TLC

(***************************************************************************)
(* float32                                                                 *)
(***************************************************************************)
SpecialExp == 999

NaN == <<0, SpecialExp>>

PosInf == <<1, SpecialExp>>

NegInf == <<-1, SpecialExp>>

Zero32 == <<0, 0>>

IsSpecial(a) == a[2] = SpecialExp

IsNaN(a) == a = NaN

IsInf(a) == IsSpecial(a) /\ a[1] # 0

Abs(n) == IF n < 0 THEN -n ELSE n

Sgn(n) == IF n < 0 THEN -1 ELSE IF n > 0 THEN 1 ELSE 0

\* number of bits of a natural below 2^8, plus base
BitLen8(a, base) ==
    base + (IF a < 16
            THEN (IF a < 4 THEN (IF a < 2 THEN a ELSE 2)
                           ELSE (IF a < 8 THEN 3 ELSE 4))
            ELSE (IF a < 64 THEN (IF a < 32 THEN 5 ELSE 6)
                            ELSE (IF a < 128 THEN 7 ELSE 8)))

\* number of bits of a natural below 2^31
BitLen(a) ==
    IF a < 65536
    THEN (IF a < 256 THEN BitLen8(a, 0) ELSE BitLen8(a \div 256, 8))
    ELSE (IF a < 16777216 THEN BitLen8(a \div 65536, 16)
                          ELSE BitLen8(a \div 16777216, 24))

\* sign * m * 2^e for a rounded significand m <= 2^24
Carry(sign, m, e) ==
    IF m = 16777216 THEN <<sign * 8388608, e + 1>> ELSE <<sign * m, e>>

\* mag / d rounded to nearest, ties to even; sticky: a fraction follows mag
RoundQuotient(mag, d, sticky) ==
    mag \div d
    + (IF 2 * (mag % d) > d
          \/ (2 * (mag % d) = d /\ (sticky \/ (mag \div d) % 2 = 1))
       THEN 1 ELSE 0)

\* Round32 for a magnitude of nb > 0 bits
RoundBits(sign, mag, e, sticky, nb) ==
    IF nb <= 24
    THEN <<sign * mag * 2^(24 - nb), e - (24 - nb)>>
    ELSE Carry(sign, RoundQuotient(mag, 2^(nb - 24), sticky), e + nb - 24)

\* The float32 nearest to sign * (mag + f) * 2^e, where 0 <= mag < 2^31 and
\* f is a fraction in (0,1) if sticky, 0 otherwise (round to nearest even).
\* A sticky fraction is only passed with mag >= 2^25.
Round32(sign, mag, e, sticky) ==
    IF mag = 0 THEN Zero32 ELSE RoundBits(sign, mag, e, sticky, BitLen(mag))

\* the float32 nearest to v * 2^e
RoundInt(v, e) == Round32(Sgn(v), Abs(v), e, FALSE)

\* float32(v) for an int v, |v| < 2^31
F32(v) == RoundInt(v, 0)

F32Neg(a) == <<-a[1], a[2]>>

F32Abs(a) == <<Abs(a[1]), a[2]>>

\* a + b where |a| is scaled by 2^6 to A, and |b| in a's scale is bq plus a
\* fraction (st); same: equal signs
AddSticky(a, A, bq, st, same) ==
    Round32(Sgn(a[1]),
            IF same THEN A + bq ELSE IF st THEN A - bq - 1 ELSE A - bq,
            a[2] - 6, st)

\* a + b for exponents d apart
AddShifted(a, b, d) ==
    IF d <= 6 THEN RoundInt(a[1] * 2^d + b[1], b[2])
    ELSE IF d >= 31 THEN a
    ELSE AddSticky(a, Abs(a[1]) * 64, Abs(b[1]) \div 2^(d - 6),
                   (Abs(b[1]) % 2^(d - 6)) # 0, Sgn(a[1]) = Sgn(b[1]))

\* a + b for finite a, b with a[2] >= b[2], neither zero
AddOrdered(a, b) == AddShifted(a, b, a[2] - b[2])

F32Add(a, b) ==
    IF IsSpecial(a) \/ IsSpecial(b)
    THEN (IF IsNaN(a) \/ IsNaN(b) THEN NaN
          ELSE IF IsInf(a) /\ IsInf(b)
               THEN (IF a = b THEN a ELSE NaN)
          ELSE IF IsInf(a) THEN a ELSE b)
    ELSE IF a[1] = 0 THEN b
    ELSE IF b[1] = 0 THEN a
    ELSE IF a[2] >= b[2] THEN AddOrdered(a, b) ELSE AddOrdered(b, a)

F32Sub(a, b) == F32Add(a, F32Neg(b))

\* the product as (hi * 2^24 + lo0) * 2^e, rounded
MulRound(sign, hi, lo0, e) ==
    Round32(sign,
            (hi + lo0 \div 16777216) * 64 + ((lo0 % 16777216) \div 262144),
            e + 18, ((lo0 % 16777216) % 262144) # 0)

\* the product of two 24-bit magnitudes from their 12-bit limbs
MulLimbs(sign, x1, x0, y1, y0, e) ==
    MulRound(sign, x1 * y1 + (x1 * y0 + x0 * y1) \div 4096,
             x0 * y0 + ((x1 * y0 + x0 * y1) % 4096) * 4096, e)

F32Mul(a, b) ==
    IF IsSpecial(a) \/ IsSpecial(b)
    THEN (IF IsNaN(a) \/ IsNaN(b) \/ a[1] = 0 \/ b[1] = 0 THEN NaN
          ELSE <<Sgn(a[1]) * Sgn(b[1]), SpecialExp>>)
    ELSE IF a[1] = 0 \/ b[1] = 0 THEN Zero32
    ELSE MulLimbs(Sgn(a[1]) * Sgn(b[1]),
                  Abs(a[1]) \div 4096, Abs(a[1]) % 4096,
                  Abs(b[1]) \div 4096, Abs(b[1]) % 4096, a[2] + b[2])

\* 5 more bits of the quotient x / y: qr = <<quotient so far, remainder>>
DivStep(qr, y) == <<qr[1] * 32 + ((qr[2] * 32) \div y), (qr[2] * 32) % y>>

\* <<floor(x * 2^25 / y), remainder>>, the quotient between 2^24 and 2^26
Quotient25(x, y) ==
    DivStep(DivStep(DivStep(DivStep(DivStep(<<x \div y, x % y>>, y), y), y), y), y)

\* sign * (qr[1] + fraction) * 2^e rounded, the fraction nonzero iff qr[2] is
DivRound(sign, qr, e) == Round32(sign, qr[1], e, qr[2] # 0)

F32Div(a, b) ==
    IF IsNaN(a) \/ IsNaN(b) THEN NaN
    ELSE IF IsInf(a)
         THEN (IF IsInf(b) THEN NaN
               ELSE <<a[1] * (IF b[1] < 0 THEN -1 ELSE 1), SpecialExp>>)
    ELSE IF IsInf(b) THEN Zero32
    ELSE IF b[1] = 0
         THEN (IF a[1] = 0 THEN NaN ELSE <<Sgn(a[1]), SpecialExp>>)
    ELSE IF a[1] = 0 THEN Zero32
    ELSE DivRound(Sgn(a[1]) * Sgn(b[1]), Quotient25(Abs(a[1]), Abs(b[1])),
                  a[2] - b[2] - 25)

\* a < b, false when either is NaN
F32Lt(a, b) ==
    IF IsNaN(a) \/ IsNaN(b) THEN FALSE
    ELSE IF IsInf(a) \/ IsInf(b)
         THEN (IF a = b THEN FALSE
               ELSE IF a = NegInf \/ b = PosInf THEN TRUE ELSE FALSE)
    ELSE IF Sgn(a[1]) # Sgn(b[1]) THEN a[1] < b[1]
    ELSE IF a[1] = 0 THEN FALSE
    ELSE IF a[1] > 0 THEN a[2] < b[2] \/ (a[2] = b[2] /\ a[1] < b[1])
    ELSE a[2] > b[2] \/ (a[2] = b[2] /\ a[1] < b[1])

F32Le(a, b) == F32Lt(a, b) \/ (a = b /\ ~IsNaN(a))

F32Gt(a, b) == F32Lt(b, a)

F32Ge(a, b) == F32Le(b, a)

\* int(a) for a finite float32 with |a| < 2^31: truncation toward zero
F32Trunc(a) ==
    IF a[1] = 0 THEN 0
    ELSE IF a[2] >= 0 THEN a[1] * 2^a[2]
    ELSE IF a[2] <= -31 THEN 0
    ELSE Sgn(a[1]) * (Abs(a[1]) \div 2^(-a[2]))

\* int(math.Ceil(float64(a))) for a finite float32
F32Ceil(a) ==
    IF a[1] > 0 /\ F32(F32Trunc(a)) # a THEN F32Trunc(a) + 1 ELSE F32Trunc(a)

(***************************************************************************)
(* Kernels (filters.go)                                                    *)
(***************************************************************************)
One32 == F32(1)

Half32 == F32Div(F32(1), F32(2))

Third32 == F32Div(F32(1), F32(3))

Interps == {"NearestNeighbor", "Bilinear", "Bicubic", "MitchellNetravali"}

NearestNeighborKernel(x) ==
    IF F32Ge(x, F32Neg(Half32)) /\ F32Lt(x, Half32) THEN One32 ELSE Zero32

BilinearKernel(x) ==
    IF F32Le(F32Abs(x), One32) THEN F32Sub(One32, F32Abs(x)) ELSE Zero32

factorA(B, C) == F32Sub(F32Sub(F32(2), F32Mul(F32Div(F32(3), F32(2)), B)), C)

factorB(B, C) == F32Add(F32Add(F32(-3), F32Mul(F32(2), B)), C)

factorC(B, C) == F32Sub(One32, F32Mul(Third32, B))

factorD(B, C) == F32Sub(F32Div(F32Neg(B), F32(6)), C)

factorE(B, C) == F32Add(B, F32Mul(F32(5), C))

factorF(B, C) == F32Sub(F32Mul(F32(-2), B), F32Mul(F32(8), C))

factorG(B, C) == F32Add(F32Mul(F32Div(F32(4), F32(3)), B), F32Mul(F32(4), C))

\* the two polynomial pieces of the spline, on absX
SplinePieces(B, C, absX) ==
    IF F32Le(absX, One32)
    THEN F32Add(F32Mul(F32Mul(absX, absX),
                       F32Add(F32Mul(factorA(B, C), absX), factorB(B, C))),
                factorC(B, C))
    ELSE IF F32Le(absX, F32(2))
    THEN F32Add(F32Mul(absX,
                  F32Add(F32Mul(absX,
                           F32Add(F32Mul(absX, factorD(B, C)), factorE(B, C))),
                         factorF(B, C))),
                factorG(B, C))
    ELSE Zero32

\* the closure returned by splineKernel(B, C), applied to x
splineKernel(B, C, x) == SplinePieces(B, C, F32Abs(x))

\* the kernel closure of the interpolation function interp
Kernel(interp, x) ==
    CASE interp = "NearestNeighbor"   -> NearestNeighborKernel(x)
      [] interp = "Bilinear"          -> BilinearKernel(x)
      [] interp = "Bicubic"           -> splineKernel(Zero32, Half32, x)
      [] interp = "MitchellNetravali" -> splineKernel(Third32, Third32, x)

\* the size argument each interpolation function passes to createFilter
KernelSize(interp) ==
    CASE interp = "NearestNeighbor"   -> 2
      [] interp = "Bilinear"          -> 2
      [] interp = "Bicubic"           -> 4
      [] interp = "MitchellNetravali" -> 4

clampFactor(factor) == IF F32Lt(factor, One32) THEN One32 ELSE factor

\* createFilter: the filter bound to an input image, for a clamped factor
createFilter(input, interp, factor) ==
    [input     |-> input,
     interp    |-> interp,
     factorInv |-> F32Div(One32, factor),
     sizeX     |-> KernelSize(interp) * F32Ceil(factor)]

\* uint16(x) and the two range checks of clampToUint16.  uint16(NaN) is
\* implementation-dependent; amd64 and arm64 both produce 0.
\* clampToUint16 as it would be if it rounded to the nearest value instead of
\* truncating
clampToUint16Nearest(x) ==
    IF IsNaN(x) THEN 0
    ELSE IF F32Lt(x, Zero32) THEN 0
    ELSE IF F32Gt(x, F32(65534)) THEN 65535
    ELSE F32Trunc(F32Add(x, Half32))

\* clampToUint16 as it would be without the upper range check: uint16(x)
\* keeps the low 16 bits
clampToUint16Wrap(x) ==
    IF IsSpecial(x) THEN 0
    ELSE IF F32Lt(x, Zero32) THEN 0
    ELSE F32Trunc(x) % 65536

clampToUint16(x) ==
    IF IsNaN(x) THEN 0
    ELSE IF F32Lt(x, Zero32) THEN 0
    ELSE IF F32Gt(x, F32(65534)) THEN 65535
    ELSE F32Trunc(x)

(***************************************************************************)
(* Images and converters                                                   *)
(***************************************************************************)
Dx(r) == r[3] - r[1]

Dy(r) == r[4] - r[2]

InRect(r, x, y) == r[1] <= x /\ x < r[3] /\ r[2] <= y /\ y < r[4]

Points(r) ==
    IF Dx(r) <= 0 \/ Dy(r) <= 0 THEN {}
    ELSE {<<x, y>> : x \in r[1]..(r[3] - 1), y \in r[2]..(r[4] - 1)}

\* image.Rect: a well-formed rectangle from two corners
Rect(x0, y0, x1, y1) ==
    <<IF x0 > x1 THEN x1 ELSE x0, IF y0 > y1 THEN y1 ELSE y0,
      IF x0 > x1 THEN x0 ELSE x1, IF y0 > y1 THEN y0 ELSE y1>>

\* the lines of a raster on rectangle r
Lines(r) == IF Dx(r) <= 0 \/ Dy(r) <= 0 THEN {} ELSE r[2]..(r[4] - 1)

\* A raster's Pix holds one line after the other.  The model stores a line by
\* its runs of equal pixels: the function from the first column of each run to
\* the samples <<R, G, B, A>> of the run.
Runs(row) ==
    [s \in {x \in DOMAIN row : (x - 1) \notin DOMAIN row \/ row[x] # row[x - 1]} |->
        row[s]]

\* the samples at column x of a line stored by its runs
RunAt(runs, x) ==
    runs[CHOOSE s \in DOMAIN runs :
            s <= x /\ \A t \in DOMAIN runs : t <= x => t <= s]

\* image.NewRGBA64: a zeroed 16-bit RGBA raster
NewRGBA64(r) ==
    [kind |-> "RGBA64", rect |-> r,
     pix  |-> [y \in Lines(r) |-> Runs([x \in r[1]..(r[3] - 1) |-> <<0, 0, 0, 0>>])]]

\* the samples a pattern p puts at offset (rx, ry) of a w x h image
PatternAt(p, rx, ry, w, h) ==
    CASE p.name = "uniform" -> p.a
      [] p.name = "checker" -> IF (rx + ry) % 2 = 0 THEN p.a ELSE p.b
      [] p.name = "centre"  -> IF 2 * rx + 1 = w /\ 2 * ry + 1 = h THEN p.a ELSE p.b
      [] p.name = "grid"    -> [k \in DOMAIN p.a |-> p.a[k] + p.c[k] * rx + p.b[k] * ry]

\* The stored samples of pixel (x, y), inside the image's rectangle.  A source
\* image is described by its pattern; rasters written by Resize carry pix.
Stored(image, x, y) ==
    IF "pix" \in DOMAIN image THEN RunAt(image.pix[y], x)
    ELSE PatternAt(image.pat, x - image.rect[1], y - image.rect[2],
                   Dx(image.rect), Dy(image.rect))

\* replicateBorder1d as it would be if the far edge were clamped to max
replicateBorder1dFar(x, min, max) ==
    IF x < min THEN min ELSE IF x >= max THEN max ELSE x

replicateBorder1d(x, min, max) ==
    IF x < min THEN min ELSE IF x >= max THEN max - 1 ELSE x

replicateBorder(x, y, rect) ==
    <<replicateBorder1d(x, rect[1], rect[3]), replicateBorder1d(y, rect[2], rect[4])>>

\* v<<8 | v for an 8-bit sample
Widen8(v) == v * 256 + v

\* the colorArray (four float32) of stored samples s of an image of kind k
colorArray(k, s) ==
    CASE k = "RGBA" ->
              <<F32(Widen8(s[1])), F32(Widen8(s[2])), F32(Widen8(s[3])), F32(Widen8(s[4]))>>
      [] k = "RGBA64" ->
              <<F32(s[1]), F32(s[2]), F32(s[3]), F32(s[4])>>
      [] k = "Gray" ->
              <<F32(Widen8(s[1])), F32(Widen8(s[1])), F32(Widen8(s[1])), F32(65535)>>
      [] k = "Gray16" ->
              <<F32(s[1]), F32(s[1]), F32(s[1]), F32(65535)>>

\* the pixel of image at point q
StoredAt(image, q) == Stored(image, q[1], q[2])

\* converter.at: the colorArray of the pixel nearest to (x, y)
at(image, x, y) ==
    colorArray(image.kind, StoredAt(image, replicateBorder(x, y, image.rect)))

\* the 16-bit channels of a colorArray whose samples are integers
Channels(ca) == <<F32Trunc(ca[1]), F32Trunc(ca[2]), F32Trunc(ca[3]), F32Trunc(ca[4])>>

\* image.At(x, y).RGBA() of a pixel inside the rectangle, as 16-bit channels
ColorAt(image, x, y) == Channels(at(image, x, y))

(***************************************************************************)
(* filterModel (filters.go)                                                *)
(***************************************************************************)
\* the first tap as it would be if the window lay beyond u
WindowStartBeyond(f, u) == F32Trunc(u) + f.sizeX + 1

\* the first tap of the window around u
WindowStart(f, u) == F32Trunc(u) - (f.sizeX \div 2) + 1

\* SetKernelWeights: the weights of the taps, kernelWeight[j] at index j + 1
KernelWeights(f, u) ==
    [j \in 1..f.sizeX |->
        Kernel(f.interp,
               F32Mul(F32Sub(F32Sub(u, F32(WindowStart(f, u))), F32(j - 1)),
                      f.factorInv))]

RECURSIVE SumWeights(_, _)
\* weightSum after the first j taps
SumWeights(kw, j) == IF j = 0 THEN Zero32 ELSE F32Add(SumWeights(kw, j - 1), kw[j])

RECURSIVE Accumulate(_, _, _, _)
\* c[k] after the first j taps of convolution1d
Accumulate(taps, kw, k, j) ==
    IF j = 0 THEN Zero32
    ELSE F32Add(Accumulate(taps, kw, k, j - 1), F32Mul(taps[j][k], kw[j]))

convolution1d(taps, kw, weightSum) ==
    [k \in 1..4 |-> F32Div(Accumulate(taps, kw, k, Len(kw)), weightSum)]

\* the colorArrays of the sizeX pixels from xf on, in line y
Taps(f, xf, y) == [k \in 1..f.sizeX |-> at(f.input, xf + k - 1, y)]

\* the clamped channels of a colorArray
Clamp(ca) ==
    <<clampToUint16(ca[1]), clampToUint16(ca[2]),
      clampToUint16(ca[3]), clampToUint16(ca[4])>>

\* Interpolate(u, y) with the weights cached by SetKernelWeights(u)
Interpolate(f, kw, weightSum, u, y) ==
    Clamp(convolution1d(Taps(f, WindowStart(f, u), y), kw, weightSum))

(***************************************************************************)
(* Resize (resize.go)                                                      *)
(***************************************************************************)
VARIABLES
    op,         \* the entry point the client called: "Resize" or "Crop"
    arch,       \* the build: decides implementation-dependent conversions
    ncpu,       \* runtime.NumCPU()
    img,        \* the source image
    interp,     \* the interpolation function
    width,      \* Resize's width argument
    height,     \* Resize's height argument
    cropArgs,   \* Crop's <<width, height>> arguments
    pc,         \* position of the calling goroutine
    scale,      \* <<scaleX, scaleY>>
    adjust,     \* the local adjust of Resize
    tempImg,    \* the intermediate (transposed) raster
    resultImg,  \* the output raster
    b,          \* the local b of Resize: bounds of the raster being written
    n,          \* number of jobs
    i,          \* loop counter of the dispatcher
    c,          \* number of signals buffered in the channel c
    workers,    \* the goroutines spawned so far
    dst         \* Crop's destination image

vars == <<op, arch, ncpu, img, interp, width, height, cropArgs, pc, scale,
          adjust, tempImg, resultImg, b, n, i, c, workers, dst>>

\* Stand-ins for the extreme values of Go's int, which the conversion of NaN
\* or an infinity produces; no arithmetic is done on them.
MaxInt == 2^30 + (2^30 - 1)

MinInt == -MaxInt

Archs == {"amd64", "arm64"}

\* int(f): truncation; for NaN and infinities the result is implementation-
\* dependent: amd64 yields the minimum int, arm64 saturates and maps NaN to 0.
IntOf(f, a) ==
    IF ~IsSpecial(f) THEN F32Trunc(f)
    ELSE IF a = "amd64" THEN MinInt
    ELSE IF IsNaN(f) THEN 0
    ELSE IF f = PosInf THEN MaxInt ELSE MinInt

NoImage == [kind |-> "none", rect |-> <<0, 0, 0, 0>>]

\* calcFactors as it would be without the case width = 0 and height = 0
calcFactorsNoDefault(w, h, oldWidth, oldHeight) ==
    IF w = 0
    THEN <<F32Div(oldHeight, F32(h)), F32Div(oldHeight, F32(h))>>
    ELSE (IF h = 0
          THEN <<F32Div(oldWidth, F32(w)), F32Div(oldWidth, F32(w))>>
          ELSE <<F32Div(oldWidth, F32(w)), F32Div(oldHeight, F32(h))>>)

\* calcFactors as it would be if a missing dimension kept the source's scale
\* instead of taking the other dimension's
calcFactorsNoAspect(w, h, oldWidth, oldHeight) ==
    IF w = 0
    THEN (IF h = 0 THEN <<One32, One32>>
          ELSE <<One32, F32Div(oldHeight, F32(h))>>)
    ELSE (IF h = 0
          THEN <<F32Div(oldWidth, F32(w)), One32>>
          ELSE <<F32Div(oldWidth, F32(w)), F32Div(oldHeight, F32(h))>>)

\* calcFactors as it would be if the vertical factor were taken from the
\* source's width
calcFactorsOneSide(w, h, oldWidth, oldHeight) ==
    IF w = 0
    THEN (IF h = 0 THEN <<One32, One32>>
          ELSE <<F32Div(oldHeight, F32(h)), F32Div(oldHeight, F32(h))>>)
    ELSE (IF h = 0
          THEN <<F32Div(oldWidth, F32(w)), F32Div(oldWidth, F32(w))>>
          ELSE <<F32Div(oldWidth, F32(w)), F32Div(oldWidth, F32(h))>>)

calcFactors(w, h, oldWidth, oldHeight) ==
    IF w = 0
    THEN (IF h = 0 THEN <<One32, One32>>
          ELSE <<F32Div(oldHeight, F32(h)), F32Div(oldHeight, F32(h))>>)
    ELSE (IF h = 0
          THEN <<F32Div(oldWidth, F32(w)), F32Div(oldWidth, F32(w))>>
          ELSE <<F32Div(oldWidth, F32(w)), F32Div(oldHeight, F32(h))>>)

numJobs(d) == IF ncpu > d THEN d ELSE ncpu

\* int(0.7 + old/scale)
NewDim(old, s, a) == IntOf(F32Add(F32Div(F32(7), F32(10)), F32Div(old, s)), a)

\* 0.5 * ((old-1.0)/scale - float32(dy-1))
\* adjust as it would be if the sample grid started at the first source pixel
AdjustNone(old, s, dy) == Zero32

Adjust(old, s, dy) ==
    F32Mul(Half32, F32Sub(F32Div(F32Sub(old, One32), s), F32(dy - 1)))

\* the bands as they would be if each but the last took one line more
SliceOverlapping(r, k, m) ==
    Rect(r[1], r[2] + (k * Dy(r)) \div m, r[3],
         r[2] + ((k + 1) * Dy(r)) \div m + (IF k + 1 < m THEN 1 ELSE 0))

\* the bands as they would be if every band had Dy / m lines and the last
\* one took the remainder as well
SliceEqual(r, k, m) ==
    Rect(r[1], r[2] + k * (Dy(r) \div m), r[3],
         IF k + 1 = m THEN r[4] ELSE r[2] + (k + 1) * (Dy(r) \div m))

\* the bands as they would be if the bounds were rounded up
SliceLeading(r, k, m) ==
    Rect(r[1], r[2] + (k * Dy(r) + m - 1) \div m, r[3],
         r[2] + ((k + 1) * Dy(r) + m - 1) \div m)

\* the band of job k of n in bounds r
Slice(r, k, m) ==
    Rect(r[1], r[2] + (k * Dy(r)) \div m, r[3], r[2] + ((k + 1) * Dy(r)) \div m)

\* Resize, up to and including make(chan int, n)
ResizeCall ==
    /\ pc = "resize"
    /\ LET oldBounds == img.rect
           oldWidth  == F32(Dx(oldBounds))
           oldHeight == F32(Dy(oldBounds))
           s         == calcFactors(width, height, oldWidth, oldHeight)
           h         == NewDim(oldWidth, s[1], arch)
       IN /\ scale' = s
          /\ IF h = MinInt
             THEN \* numJobs yields a negative n: makechan panics
                  /\ pc' = "panic"
                  /\ UNCHANGED <<tempImg, b, adjust, n>>
             ELSE IF h = MaxInt
             THEN \* the workers' bands have about 2^63/n rows
                  /\ pc' = "unbounded"
                  /\ UNCHANGED <<tempImg, b, adjust, n>>
             ELSE LET r == Rect(0, 0, Dy(oldBounds), h) IN
                  /\ tempImg' = NewRGBA64(r)
                  /\ b' = r
                  /\ adjust' = Adjust(oldWidth, s[1], Dy(r))
                  /\ n' = numJobs(Dy(r))
                  /\ pc' = IF numJobs(Dy(r)) > 0 THEN "spawn1" ELSE "pass2"
    /\ i' = 0
    /\ c' = 0
    /\ UNCHANGED <<op, arch, ncpu, img, interp, width, height, cropArgs,
                   resultImg, workers, dst>>

\* go resizeSlice(...): the goroutine's arguments are evaluated here
Spawn(pass) ==
    /\ pc = (IF pass = 1 THEN "spawn1" ELSE "spawn2")
    /\ i < n
    /\ workers' = Append(workers,
          [pass   |-> pass,
           scale  |-> scale[pass],
           adjust |-> adjust,
           offset |-> F32(IF pass = 1 THEN img.rect[1] ELSE img.rect[2]),
           slice  |-> Slice(b, i, n),
           y      |-> Slice(b, i, n)[2],
           done   |-> FALSE])
    /\ i' = IF i + 1 < n THEN i + 1 ELSE 0
    /\ pc' = IF i + 1 < n THEN pc ELSE (IF pass = 1 THEN "wait1" ELSE "wait2")
    /\ UNCHANGED <<op, arch, ncpu, img, interp, width, height, cropArgs, scale,
                   adjust, tempImg, resultImg, b, n, c, dst>>

\* the x loop of resizeSlice, with the filter's cached weights and their sum
RowWith(f, kw, weightSum, u, slice) ==
    [x \in slice[1]..(slice[3] - 1) |-> Interpolate(f, kw, weightSum, u, x)]

\* the row at coordinate u: SetKernelWeights(u), then the x loop
RowAt(f, u, slice) ==
    RowWith(f, KernelWeights(f, u), SumWeights(KernelWeights(f, u), f.sizeX), u, slice)

\* u = scale*(float32(y)+adjust) + offset: the coordinate of output line y
Coordinate(w, y) == F32Add(F32Mul(w.scale, F32Add(F32(y), w.adjust)), w.offset)

\* the row y of the output of a worker
RowOf(w, input, y) ==
    RowAt(createFilter(input, interp, clampFactor(w.scale)), Coordinate(w, y), w.slice)

\* the pixels of line y of output, written from row
WriteRow(output, y, row) ==
    IF y \in DOMAIN output.pix THEN [output EXCEPT !.pix[y] = Runs(row)]
    ELSE output

\* one iteration of the loop over y in resizeSlice
WorkerRow(k) ==
    /\ k \in DOMAIN workers
    /\ ~workers[k].done
    /\ workers[k].y < workers[k].slice[4]
    /\ LET w == workers[k] IN
       IF w.pass = 1
       THEN /\ tempImg' = WriteRow(tempImg, w.y, RowOf(w, img, w.y))
            /\ UNCHANGED resultImg
       ELSE /\ resultImg' = WriteRow(resultImg, w.y, RowOf(w, tempImg, w.y))
            /\ UNCHANGED tempImg
    /\ workers' = [workers EXCEPT ![k].y = @ + 1]
    /\ UNCHANGED <<op, arch, ncpu, img, interp, width, height, cropArgs, pc,
                   scale, adjust, b, n, i, c, dst>>

\* c <- 1 at the end of resizeSlice; the channel has capacity n
WorkerSend(k) ==
    /\ k \in DOMAIN workers
    /\ ~workers[k].done
    /\ workers[k].y >= workers[k].slice[4]
    /\ c < n
    /\ c' = c + 1
    /\ workers' = [workers EXCEPT ![k].done = TRUE]
    /\ UNCHANGED <<op, arch, ncpu, img, interp, width, height, cropArgs, pc,
                   scale, adjust, tempImg, resultImg, b, n, i, dst>>

\* the waiting loop as it would be if a receive did not block on an empty
\* channel
ReceiveNoWait(pass) ==
    /\ pc = (IF pass = 1 THEN "wait1" ELSE "wait2")
    /\ i < n
    /\ c' = IF c > 0 THEN c - 1 ELSE 0
    /\ i' = IF i + 1 < n THEN i + 1 ELSE 0
    /\ pc' = IF i + 1 < n THEN pc ELSE (IF pass = 1 THEN "pass2" ELSE "return")
    /\ UNCHANGED <<op, arch, ncpu, img, interp, width, height, cropArgs, scale,
                   adjust, tempImg, resultImg, b, n, workers, dst>>

\* the waiting loop as it would be if it ended with the first signal
ReceiveFirst(pass) ==
    /\ pc = (IF pass = 1 THEN "wait1" ELSE "wait2")
    /\ i < n
    /\ c > 0
    /\ c' = c - 1
    /\ i' = 0
    /\ pc' = (IF pass = 1 THEN "pass2" ELSE "return")
    /\ UNCHANGED <<op, arch, ncpu, img, interp, width, height, cropArgs, scale,
                   adjust, tempImg, resultImg, b, n, workers, dst>>

\* <-c in the loops that wait for the jobs
Receive(pass) ==
    /\ pc = (IF pass = 1 THEN "wait1" ELSE "wait2")
    /\ i < n
    /\ c > 0
    /\ c' = c - 1
    /\ i' = IF i + 1 < n THEN i + 1 ELSE 0
    /\ pc' = IF i + 1 < n THEN pc ELSE (IF pass = 1 THEN "pass2" ELSE "return")
    /\ UNCHANGED <<op, arch, ncpu, img, interp, width, height, cropArgs, scale,
                   adjust, tempImg, resultImg, b, n, workers, dst>>

\* resultImg := image.NewRGBA64(...); b = ...; adjust = ...
Pass2 ==
    /\ pc = "pass2"
    /\ LET oldBounds == img.rect
           oldWidth  == F32(Dx(oldBounds))
           oldHeight == F32(Dy(oldBounds))
           w         == NewDim(oldWidth, scale[1], arch)
           h         == NewDim(oldHeight, scale[2], arch)
       IN IF h = MinInt
          THEN \* a raster of negative height: NewRGBA64 or a worker panics
               /\ pc' = "panic"
               /\ UNCHANGED <<resultImg, b, adjust>>
          ELSE LET r == Rect(0, 0, w, h) IN
               /\ resultImg' = NewRGBA64(r)
               /\ b' = r
               /\ adjust' = Adjust(oldHeight, scale[2], Dy(r))
               /\ pc' = IF n > 0 THEN "spawn2" ELSE "return"
    /\ UNCHANGED <<op, arch, ncpu, img, interp, width, height, cropArgs, scale,
                   tempImg, n, i, c, workers, dst>>

\* return resultImg
Return ==
    /\ pc = "return"
    /\ pc' = IF op = "Crop" THEN "draw" ELSE "done"
    /\ UNCHANGED <<op, arch, ncpu, img, interp, width, height, cropArgs, scale,
                   adjust, tempImg, resultImg, b, n, i, c, workers, dst>>

(***************************************************************************)
(* float64, as Crop uses it: positive finite values only.  A float64 is a  *)
(* record [m, e] standing for m * 2^e, the 53-bit significand m held as    *)
(* two limbs <<hi, lo>> = hi * 2^27 + lo with 2^52 <= m < 2^53.            *)
(***************************************************************************)
Limb == 2^27

WGe(x, y) == x[1] > y[1] \/ (x[1] = y[1] /\ x[2] >= y[2])

WSub(x, y) ==
    IF x[2] >= y[2] THEN <<x[1] - y[1], x[2] - y[2]>>
    ELSE <<x[1] - y[1] - 1, x[2] + Limb - y[2]>>

\* k * x + d for small k and d
WScale(x, k, d) ==
    <<k * x[1] + (k * x[2] + d) \div Limb, (k * x[2] + d) % Limb>>

\* x + 1
WInc(x) == IF x[2] + 1 = Limb THEN <<x[1] + 1, 0>> ELSE <<x[1], x[2] + 1>>

\* x \div D for D = 2 or 4
WShr(x, D) == <<x[1] \div D, (x[1] % D) * (Limb \div D) + x[2] \div D>>

\* float64(v) of an integer 0 < v < 2^26: exact
F64(v) == [m |-> <<v * 2^(26 - BitLen(v)), 0>>, e |-> BitLen(v) - 53]

\* the next quotient digit, base 8, of the remainder r8 = 8 * r by y
Digit(r8, y) == Cardinality({k \in 1..7 : WGe(r8, WScale(y, k, 0))})

\* three more quotient bits of long division; qr is <<quotient, remainder>>
DivDigit(qr, y) ==
    <<WScale(qr[1], 8, Digit(WScale(qr[2], 8, 0), y)),
      WSub(WScale(qr[2], 8, 0), WScale(y, Digit(WScale(qr[2], 8, 0), y), 0))>>

DivDigits6(qr, y) ==
    DivDigit(DivDigit(DivDigit(DivDigit(DivDigit(DivDigit(qr, y), y), y), y), y), y)

\* 54 quotient bits
DivDigits18(qr, y) == DivDigits6(DivDigits6(DivDigits6(qr, y), y), y)

\* <<floor(x * 2^54 / y), remainder>> for significands x and y
Quotient54(x, y) ==
    IF WGe(x, y) THEN DivDigits18(<<(<<0, 1>>), WSub(x, y)>>, y)
    ELSE DivDigits18(<<(<<0, 0>>), x>>, y)

\* the float64 of significand m and exponent e, m <= 2^53
F64Carry(m, e) ==
    IF m[1] = 2^26 THEN [m |-> <<2^25, 0>>, e |-> e + 1] ELSE [m |-> m, e |-> e]

\* Q / D rounded to nearest, ties to even; sticky: a fraction follows Q
WRoundQuotient(Q, D, sticky) ==
    IF 2 * (Q[2] % D) > D
       \/ (2 * (Q[2] % D) = D /\ (sticky \/ WShr(Q, D)[2] % 2 = 1))
    THEN WInc(WShr(Q, D)) ELSE WShr(Q, D)

\* the float64 nearest to (qr[1] + fraction) * 2^e, where qr[1] has 53 + s bits
F64Round(qr, s, e) == F64Carry(WRoundQuotient(qr[1], 2^s, qr[2] # <<0, 0>>), e + s)

\* x / y rounded to nearest, ties to even
F64Div(x, y) ==
    F64Round(Quotient54(x.m, y.m), IF WGe(x.m, y.m) THEN 2 ELSE 1, x.e - y.e - 54)

F64Lt(x, y) == x.e < y.e \/ (x.e = y.e /\ ~WGe(x.m, y.m))

\* uint(x): truncation, for x < 2^26
F64Trunc(x) ==
    IF x.e <= -53 THEN 0 ELSE x.m[1] \div 2^(-x.e - 27)

(***************************************************************************)
(* Crop                                                                    *)
(***************************************************************************)
\* Go's integer division, which truncates toward zero
Quo(a, d) == IF a >= 0 THEN a \div d ELSE -((-a) \div d)

\* the rx and ry of Crop
CropRatios(ob) ==
    <<F64Div(F64(Dx(ob)), F64(cropArgs[1])), F64Div(F64(Dy(ob)), F64(cropArgs[2]))>>

\* the w and h Crop asks Resize for, from r = <<rx, ry>>
SizeFrom(ob, r) ==
    IF F64Lt(r[1], r[2])
    THEN <<cropArgs[1], F64Trunc(F64Div(F64(Dy(ob)), r[1]))>>
    ELSE <<F64Trunc(F64Div(F64(Dx(ob)), r[2])), cropArgs[2]>>

CropSize(ob) == SizeFrom(ob, CropRatios(ob))

\* the pt of Crop, where in buf the window starts, from r = <<rx, ry>>
PointFrom(r, w, h) ==
    IF F64Lt(r[1], r[2])
    THEN <<0, Quo(h - cropArgs[2], 2)>>
    ELSE <<Quo(w - cropArgs[1], 2), 0>>

CropPoint(ob, w, h) == PointFrom(CropRatios(ob), w, h)

\* Crop, up to the call of Resize(w, h, img, interp)
CropCall ==
    /\ pc = "crop"
    /\ width' = CropSize(img.rect)[1]
    /\ height' = CropSize(img.rect)[2]
    /\ pc' = "resize"
    /\ UNCHANGED <<op, arch, ncpu, img, interp, cropArgs, scale, adjust,
                   tempImg, resultImg, b, n, i, c, workers, dst>>

\* draw.Draw(dst, r, buf, pt, draw.Src): r is clipped to the part of buf that
\* lies under it; the other pixels of dst keep their zero value
Draw(r, buf, pt) ==
    [kind |-> "RGBA64", rect |-> r,
     pix  |-> [y \in Lines(r) |->
                 Runs([x \in r[1]..(r[3] - 1) |->
                         IF InRect(buf.rect, x + pt[1], y + pt[2])
                         THEN Stored(buf, x + pt[1], y + pt[2])
                         ELSE <<0, 0, 0, 0>>])]]

\* Crop, from the return of Resize to return dst
CropDraw ==
    /\ pc = "draw"
    /\ dst' = Draw(Rect(0, 0, cropArgs[1], cropArgs[2]), resultImg,
                   CropPoint(img.rect, width, height))
    /\ pc' = "done"
    /\ UNCHANGED <<op, arch, ncpu, img, interp, width, height, cropArgs, scale,
                   adjust, tempImg, resultImg, b, n, i, c, workers>>

(***************************************************************************)
(* Inputs                                                                  *)
(***************************************************************************)
MaxDim == 3

MaxOut == 3

MaxCPU == 2

Origins == {<<0, 0>>, <<1, 2>>}

\* the colour of Test_SameColor, 8 bits a channel
SameColor == <<128, 128, 128, 255>>

\* an image of kind k on the rectangle of size w x h at origin o
Image(k, o, w, h, p) ==
    [kind |-> k, rect |-> <<o[1], o[2], o[1] + w, o[2] + h>>, pat |-> p]

\* 16-bit samples that differ from pixel to pixel: a at the first pixel, c
\* more with every column and b more with every line
Grid ==
    [name |-> "grid", a |-> <<1000, 2000, 3000, 65535>>,
     b |-> <<16, 32, 64, 0>>, c |-> <<1, 1, 1, 0>>]

\* the image of Test_Nearest: Gray16, black but for a white centre
Centre == [name |-> "centre", a |-> <<65535>>, b |-> <<0>>]

SourceImages ==
    {Image("RGBA", <<0, 0>>, w, h, [name |-> "uniform", a |-> SameColor]) :
        w \in 0..MaxDim, h \in 0..MaxDim}
    \cup {Image("RGBA64", o, w, h, Grid) :
            o \in Origins, w \in 0..MaxDim, h \in 0..MaxDim}

UpscaleImages ==
    {Image("Gray16", <<0, 0>>, MaxDim, MaxDim, Centre)}
    \cup {Image("RGBA64", o, MaxDim, MaxDim, Grid) : o \in Origins}

CropSides == {1, 2, 3, 9}

CropTargets == {1, 2, 3, 7}

CropImages == {Image("RGBA64", <<0, 0>>, w, h, Grid) : w \in CropSides, h \in CropSides}

InitCommon ==
    /\ scale = <<Zero32, Zero32>>
    /\ adjust = Zero32
    /\ tempImg = NoImage
    /\ resultImg = NoImage
    /\ b = <<0, 0, 0, 0>>
    /\ n = 0
    /\ i = 0
    /\ c = 0
    /\ workers = <<>>
    /\ dst = NoImage

\* Resize(width, height, img, interp) on small images.  The build decides
\* nothing but the conversion of NaN and infinities, which only zero-area
\* sources produce.  The bands and the interleaving of the workers do not
\* depend on the kernel, so the number of CPUs varies for one kernel only.
InitResize ==
    /\ op = "Resize"
    /\ pc = "resize"
    /\ cropArgs = <<0, 0>>
    /\ img \in SourceImages
    /\ arch \in (IF Points(img.rect) = {} THEN Archs ELSE {"amd64"})
    /\ interp \in Interps
    /\ ncpu \in (IF interp = "NearestNeighbor" THEN 1..MaxCPU ELSE {1})
    /\ width \in 0..MaxOut
    /\ height \in 0..MaxOut

\* Resize to twice the size, as Test_Nearest does
InitUpscale ==
    /\ op = "Resize"
    /\ pc = "resize"
    /\ cropArgs = <<0, 0>>
    /\ img \in UpscaleImages
    /\ arch = "amd64"
    /\ interp \in Interps
    /\ ncpu \in (IF interp = "NearestNeighbor" THEN 1..MaxCPU ELSE {1})
    /\ width = 2 * MaxDim
    /\ height \in {0, 2 * MaxDim}

\* Crop(width, height, img, interp) with positive arguments on non-empty images
InitCrop ==
    /\ op = "Crop"
    /\ pc = "crop"
    /\ cropArgs \in CropTargets \X CropTargets
    /\ img \in CropImages
    /\ arch = "amd64"
    /\ ncpu = 1
    /\ interp \in Interps
    /\ width = 0
    /\ height = 0

Init == (InitResize \/ InitUpscale \/ InitCrop) /\ InitCommon

\* the steps of Resize and of its worker goroutines
NextResize ==
    \/ ResizeCall
    \/ \E pass \in 1..2 : Spawn(pass)
    \/ \E k \in DOMAIN workers : WorkerRow(k)
    \/ \E k \in DOMAIN workers : WorkerSend(k)
    \/ \E pass \in 1..2 : Receive(pass)
    \/ Pass2
    \/ Return

Next == NextResize \/ CropCall \/ CropDraw

Spec == Init /\ [][Next]_vars

(***************************************************************************)
(* The checkerboards of Test_ResizeGamma and Test_ResizeAlpha              *)
(***************************************************************************)
CheckerSide == 256

CheckerOut == 64

White == <<255, 255, 255, 255>>

Black == <<0, 0, 0, 255>>

Transparent == <<0, 0, 0, 0>>

CheckerImage(even, odd) ==
    [kind |-> "RGBA", rect |-> <<0, 0, CheckerSide, CheckerSide>>,
     pat |-> [name |-> "checker", a |-> even, b |-> odd]]

InitChecker ==
    /\ op = "Resize"
    /\ pc = "resize"
    /\ cropArgs = <<0, 0>>
    /\ arch = "amd64"
    /\ ncpu = 1
    /\ img \in {CheckerImage(White, Black), CheckerImage(Black, Transparent)}
    /\ interp = "NearestNeighbor"
    /\ width = CheckerOut
    /\ height = 0
    /\ InitCommon

SpecChecker == InitChecker /\ [][NextResize]_vars

(***************************************************************************)
(* Properties                                                              *)
(***************************************************************************)
\* Resize has returned resultImg to its caller
Returned == op = "Resize" /\ pc = "done"

NonEmpty(r) == Dx(r) > 0 /\ Dy(r) > 0

\* the 16-bit samples of pixel p of the image Resize returned
Out(p) == Stored(resultImg, p[1], p[2])

\* C1, as stated: Resize(0, 0, img, interp) returns an image whose bounds
\* rectangle equals img.Bounds(), Min and Max corners alike, also for a source
\* whose bounds do not start at (0,0).
C1_SameBounds ==
    (Returned /\ width = 0 /\ height = 0) => resultImg.rect = img.rect

\* C1, amended: Resize(0, 0, img, interp) never fails and returns an image of
\* the source's size whose bounds start at (0,0): (0, 0, Dx, Dy) of
\* img.Bounds().
C1_SameSize ==
    (op = "Resize" /\ width = 0 /\ height = 0) =>
        /\ pc \notin {"panic", "unbounded"}
        /\ (pc = "done" => resultImg.rect = <<0, 0, Dx(img.rect), Dy(img.rect)>>)

\* Resize(0, 0, ...) has returned for a non-empty source that starts off (0,0)
C1_Witness ==
    /\ Returned /\ width = 0 /\ height = 0
    /\ NonEmpty(img.rect) /\ img.rect[1] # 0 /\ img.rect[2] # 0
    /\ resultImg.rect # img.rect

\* C2: for a non-empty source and W > 0, H > 0, Resize never fails and returns
\* an image whose bounds are exactly (0, 0, W, H).
C2_ExactSize ==
    (op = "Resize" /\ NonEmpty(img.rect) /\ width > 0 /\ height > 0) =>
        /\ pc \notin {"panic", "unbounded"}
        /\ (pc = "done" => resultImg.rect = <<0, 0, width, height>>)

\* Resize(W, H, ...) has returned with both sizes changed, one up and one down
C2_Witness ==
    /\ Returned /\ width > Dx(img.rect) /\ height > 0 /\ height < Dy(img.rect)
    /\ Dx(img.rect) > 0
    /\ resultImg.rect = <<0, 0, width, height>>

\* |a / d - q| < 1 for integers a, q and d > 0
WithinOne(a, d, q) == a < (q + 1) * d /\ (q - 1) * d < a

\* C3: Resize(W, 0, img, interp) with W > 0 on a non-empty source returns
\* width W and a height less than 1 away from oldH * W / oldW, which is W for a
\* square source; symmetrically for Resize(0, H, ...).
C3_AspectRatio ==
    (Returned /\ NonEmpty(img.rect)) =>
        /\ (width > 0 /\ height = 0) =>
              /\ Dx(resultImg.rect) = width /\ resultImg.rect[1] = 0 /\ resultImg.rect[2] = 0
              /\ WithinOne(Dy(img.rect) * width, Dx(img.rect), Dy(resultImg.rect))
              /\ (Dx(img.rect) = Dy(img.rect) => resultImg.rect = <<0, 0, width, width>>)
        /\ (width = 0 /\ height > 0) =>
              /\ Dy(resultImg.rect) = height /\ resultImg.rect[1] = 0 /\ resultImg.rect[2] = 0
              /\ WithinOne(Dx(img.rect) * height, Dy(img.rect), Dx(resultImg.rect))
              /\ (Dx(img.rect) = Dy(img.rect) => resultImg.rect = <<0, 0, height, height>>)

\* Resize(W, 0, ...) has returned for a non-square source whose proportional
\* height is no integer
C3_Witness ==
    /\ Returned /\ width > 0 /\ height = 0
    /\ NonEmpty(img.rect) /\ Dx(img.rect) # Dy(img.rect)
    /\ (Dy(img.rect) * width) % Dx(img.rect) # 0
    /\ Dx(resultImg.rect) = width

\* C4: for a source of zero area Resize does not fail, spawns no worker and
\* returns a zero-area image, whatever width and height are.
C4_ZeroArea ==
    (op = "Resize" /\ ~NonEmpty(img.rect)) =>
        /\ pc \notin {"panic", "unbounded"}
        /\ workers = <<>>
        /\ (pc = "done" => ~NonEmpty(resultImg.rect))

\* the 8-bit value a caller reads from a 16-bit channel (v >> 8)
High8(v) == v \div 256

\* C5: the 256 x 256 image of alternating white and black pixels, resized to
\* 64 x 64 with NearestNeighbor, has the 8-bit value 188 in every colour
\* channel of every pixel.
C5_LinearLight ==
    (Returned /\ img = CheckerImage(White, Black)) =>
        \A p \in Points(resultImg.rect) :
            \A k \in 1..3 : High8(Out(p)[k]) = 188

\* C6: downscaling an image whose pixels all have one colour returns an image
\* whose pixels all have that colour, for every kernel and scale factor.
C6_SameColor ==
    (/\ Returned /\ img.pat.name = "uniform" /\ NonEmpty(img.rect)
     /\ Dx(resultImg.rect) <= Dx(img.rect) /\ Dy(resultImg.rect) <= Dy(img.rect)
     /\ resultImg.rect # <<0, 0, Dx(img.rect), Dy(img.rect)>>) =>
        \A p \in Points(resultImg.rect) :
            Out(p) = ColorAt(img, img.rect[1], img.rect[2])

\* the output of Resize is the source magnified k times, pixel by pixel
Magnified(k) ==
    \A p \in Points(resultImg.rect) :
        Out(p) =
            ColorAt(img, img.rect[1] + p[1] \div k, img.rect[2] + p[2] \div k)

\* C7: upscaling with NearestNeighbor by an integer factor k copies source
\* pixels: output pixel (x, y) equals source pixel (floor(x/k), floor(y/k)).
C7_NearestCopies ==
    \A k \in 1..(2 * MaxDim) :
        (/\ Returned /\ interp = "NearestNeighbor" /\ NonEmpty(img.rect)
         /\ width = k * Dx(img.rect) /\ height \in {0, k * Dy(img.rect)}) =>
            Magnified(k)

\* C8: the 256 x 256 image of alternating opaque black and transparent pixels,
\* resized to 64 x 64 with NearestNeighbor, has in every pixel the 8-bit
\* colour channels 0 and the 8-bit alpha 127.
C8_HalfAlpha ==
    (Returned /\ img = CheckerImage(Black, Transparent)) =>
        /\ resultImg.rect = <<0, 0, CheckerOut, CheckerOut>>
        /\ \A p \in Points(resultImg.rect) :
              /\ \A k \in 1..3 : High8(Out(p)[k]) = 0
              /\ High8(Out(p)[4]) = 127

\* the resized black and transparent checkerboard has been returned
C8_Witness ==
    /\ Returned /\ img = CheckerImage(Black, Transparent)
    /\ Points(resultImg.rect) # {}
    /\ High8(Out(<<CheckerOut - 1, CheckerOut - 1>>)[4]) = 127

\* C9: resizing an image to its own dimensions with NearestNeighbor, Bilinear
\* or Bicubic returns, in every pixel, the 16-bit value of the source pixel at
\* the same position.
C9_Identity ==
    (/\ Returned /\ interp \in {"NearestNeighbor", "Bilinear", "Bicubic"}
     /\ NonEmpty(img.rect)
     /\ width = Dx(img.rect) /\ height = Dy(img.rect)) =>
        Magnified(1)

\* C10: Crop(width, height, img, interp) returns an image with bounds
\* (0, 0, width, height); the image Resize made covers the target; the window
\* is centred in it along the axis that overflows, the two margins differing
\* by at most one pixel, and lies inside it.
C10_CoverAndCentre ==
    (op = "Crop" /\ pc = "done") =>
        /\ dst.rect = <<0, 0, cropArgs[1], cropArgs[2]>>
        /\ Dx(resultImg.rect) >= cropArgs[1]
        /\ Dy(resultImg.rect) >= cropArgs[2]
        /\ \A k \in 1..2 :
              LET left  == CropPoint(img.rect, width, height)[k]
                  right == resultImg.rect[k + 2] - cropArgs[k] - left
              IN left >= 0 /\ right >= 0 /\ right - left \in {0, 1}

(***************************************************************************)
(* The kernels on their own: a kernel closure is called with an argument   *)
(* x, as SetKernelWeights calls it for every tap.  The variables of Resize *)
(* hold the call: interp the interpolation function, adjust the argument   *)
(* x, and scale the pair <<kernel(x), kernel(0)>> once it has returned.    *)
(***************************************************************************)
KernelSteps == 16

\* the multiples of 1/KernelSteps from -4 to 4
KernelPoints ==
    {F32Div(F32(k), F32(KernelSteps)) : k \in (-4 * KernelSteps)..(4 * KernelSteps)}

InitKernel ==
    /\ op = "Kernel"
    /\ pc = "kernel"
    /\ interp \in Interps
    /\ adjust \in KernelPoints
    /\ scale = <<Zero32, Zero32>>
    /\ arch = "amd64"
    /\ ncpu = 1
    /\ img = NoImage
    /\ width = 0
    /\ height = 0
    /\ cropArgs = <<0, 0>>
    /\ tempImg = NoImage
    /\ resultImg = NoImage
    /\ b = <<0, 0, 0, 0>>
    /\ n = 0
    /\ i = 0
    /\ c = 0
    /\ workers = <<>>
    /\ dst = NoImage

\* f.kernel(x)
KernelCall ==
    /\ pc = "kernel"
    /\ scale' = <<Kernel(interp, adjust), Kernel(interp, Zero32)>>
    /\ pc' = "done"
    /\ UNCHANGED <<op, arch, ncpu, img, interp, width, height, cropArgs, adjust,
                   tempImg, resultImg, b, n, i, c, workers, dst>>

SpecKernel == InitKernel /\ [][KernelCall]_vars

\* the radius of a kernel: it is meant to vanish from there on
Radius(k) ==
    CASE k = "NearestNeighbor"   -> 1
      [] k = "Bilinear"          -> 1
      [] k = "Bicubic"           -> 2
      [] k = "MitchellNetravali" -> 2

\* C13: for every kernel the value at 0 is the largest value the kernel
\* takes, and the value at every x with |x| >= radius is exactly 0.
C13_KernelShape ==
    (op = "Kernel" /\ pc = "done") =>
        /\ F32Le(scale[1], scale[2])
        /\ F32Ge(F32Abs(adjust), F32(Radius(interp))) => scale[1] = Zero32

\* Resize has returned resultImg to its caller (Crop included)
HasReturned == pc \in {"done", "draw"}

\* line y of the output has been written by a worker of the second pass
Written(y) ==
    \E k \in DOMAIN workers :
        /\ workers[k].pass = 2
        /\ workers[k].slice[2] <= y /\ y < workers[k].y

\* C11: when Resize returns, every spawned worker has signalled completion
\* and every line of the output raster that holds pixels has been written.
C11_CompleteOnReturn ==
    HasReturned =>
        /\ \A k \in DOMAIN workers : workers[k].done
        /\ c = 0
        /\ \A y \in Lines(resultImg.rect) : Written(y)

\* Resize has returned an image of several lines written by several workers
C11_Witness ==
    /\ Returned /\ n > 1 /\ Dy(resultImg.rect) > 1 /\ Dx(resultImg.rect) > 0
    /\ \A k \in DOMAIN workers : workers[k].done
    /\ \A y \in Lines(resultImg.rect) : Written(y)

\* worker k has been spawned and has not yet signalled completion
Running(k) == k \in DOMAIN workers /\ ~workers[k].done

\* the bands of workers k and l share no line
DisjointBands(k, l) ==
    \/ workers[k].slice[4] <= workers[l].slice[2]
    \/ workers[l].slice[4] <= workers[k].slice[2]

\* the raster the workers of a pass write
Output(pass) == IF pass = 1 THEN tempImg ELSE resultImg

\* line y of the raster of a pass changes in this step
LineChanges(pass, y) ==
    /\ "pix" \in DOMAIN Output(pass)
    /\ Output(pass)' # Output(pass)
    /\ Output(pass).rect = Output(pass)'.rect
    /\ y \in DOMAIN Output(pass).pix
    /\ Output(pass)'.pix[y] # Output(pass).pix[y]

\* in this step worker k of the given pass writes line y of its own band
WritesOwnLine(k, pass, y) ==
    /\ Running(k) /\ workers[k].pass = pass
    /\ workers[k].y = y /\ workers'[k].y = y + 1
    /\ workers[k].slice[2] <= y /\ y < workers[k].slice[4]
    /\ \A l \in DOMAIN workers : l # k => workers'[l] = workers[l]

\* C12: workers that run at the same time belong to the same pass (so the
\* raster they read, the source or the finished intermediate image, is not
\* being written) and have disjoint bands; a line of a raster only changes
\* in a step of the one worker whose band holds it; the source image never
\* changes.
C12_NoSharedLocation ==
    /\ [](\A k, l \in DOMAIN workers :
            (k # l /\ Running(k) /\ Running(l)) =>
                workers[k].pass = workers[l].pass /\ DisjointBands(k, l))
    /\ [][/\ img' = img
          /\ \A pass \in 1..2 : \A y \in Lines(Output(pass).rect) :
                LineChanges(pass, y) =>
                    \E k \in DOMAIN workers : WritesOwnLine(k, pass, y)]_vars

\* two workers run at the same time and each has written lines of its band
C12_Witness ==
    \E k, l \in DOMAIN workers :
        /\ k # l /\ Running(k) /\ Running(l)
        /\ workers[k].y > workers[k].slice[2]
        /\ workers[l].y > workers[l].slice[2]
        /\ workers[k].slice[1] < workers[k].slice[3]

(***************************************************************************)
(* The dispatch loop on its own: `for i := 0; i < n; i++ { slice := ...;   *)
(* go resizeSlice(...) }` for a raster of H lines and n jobs, 1 <= n <= H. *)
(***************************************************************************)
MaxRows == 12

InitBands ==
    /\ op = "Dispatch"
    /\ pc \in {"spawn1", "spawn2"}
    /\ b \in {<<0, 0, 1, H>> : H \in 1..MaxRows}
    /\ n \in 1..Dy(b)
    /\ i = 0
    /\ c = 0
    /\ workers = <<>>
    /\ scale = <<One32, One32>>
    /\ adjust = Zero32
    /\ arch = "amd64"
    /\ ncpu = n
    /\ img = NoImage
    /\ interp = "NearestNeighbor"
    /\ width = 0
    /\ height = 0
    /\ cropArgs = <<0, 0>>
    /\ tempImg = NoImage
    /\ resultImg = NoImage
    /\ dst = NoImage

SpecBands == InitBands /\ [][\E pass \in 1..2 : Spawn(pass)]_vars

\* the dispatch loop has spawned all its jobs
Dispatched == op = "Dispatch" /\ pc \in {"wait1", "wait2"}

\* the number of lines of the band of worker k
BandSize(k) == workers[k].slice[4] - workers[k].slice[2]

\* C15: for H >= 1 lines and 1 <= n <= H jobs the bands are contiguous, do
\* not overlap, cover exactly [0, H), are not empty, and any two differ in
\* size by at most one line.
C15_Bands ==
    Dispatched =>
        /\ Len(workers) = n
        /\ workers[1].slice[2] = b[2]
        /\ workers[n].slice[4] = b[4]
        /\ \A k \in 1..(n - 1) : workers[k].slice[4] = workers[k + 1].slice[2]
        /\ \A k \in 1..n : BandSize(k) >= 1
        /\ \A k, l \in 1..n : k # l => DisjointBands(k, l)
        /\ \A k, l \in 1..n : BandSize(k) - BandSize(l) \in {-1, 0, 1}

\* at least three jobs have been dispatched for a number of lines that is
\* no multiple of the number of jobs
C15_Witness ==
    /\ Dispatched /\ n >= 3 /\ Dy(b) % n # 0
    /\ Len(workers) = n
    /\ \E k, l \in 1..n : BandSize(k) # BandSize(l)

\* C17, as stated: the sizes of the bands do not decrease with the index of
\* the band, the remainder going to the trailing bands.
C17_TrailingRemainder ==
    Dispatched => \A k \in 1..(n - 1) : BandSize(k) <= BandSize(k + 1)

\* C17, amended: the remainder is spread over the bands; the first band is
\* never larger and the last band never smaller than any other band.
C17_FirstSmallestLastLargest ==
    Dispatched =>
        \A k \in 1..n : BandSize(1) <= BandSize(k) /\ BandSize(k) <= BandSize(n)

\* jobs dispatched whose larger bands are not all at the end
C17_Witness ==
    /\ Dispatched
    /\ \E k \in 1..(n - 1) : BandSize(k) > BandSize(k + 1)
    /\ BandSize(1) < BandSize(n)

\* the raster the workers of a pass read
Input(pass) == IF pass = 1 THEN img ELSE tempImg

\* the filter worker w builds
FilterOf(w) == createFilter(Input(w.pass), interp, clampFactor(w.scale))

\* the points (x, y) worker w passes to converter.at for its output line y
TapPoints(w, y) ==
    {<<WindowStart(FilterOf(w), Coordinate(w, y)) + j - 1, x>> :
        j \in 1..FilterOf(w).sizeX, x \in w.slice[1]..(w.slice[3] - 1)}

\* worker k is about to compute a line that holds pixels
AtLine(k) ==
    /\ Running(k)
    /\ workers[k].y < workers[k].slice[4]
    /\ workers[k].slice[1] < workers[k].slice[3]

MaxBorder == 3

\* the points of rectangle r and of a margin of MaxBorder around it
Around(r) ==
    {<<x, y>> : x \in (r[1] - MaxBorder)..(r[3] - 1 + MaxBorder),
                y \in (r[2] - MaxBorder)..(r[4] - 1 + MaxBorder)}

\* replicateBorder takes q into rectangle r, and leaves it alone if it is there
ClampedInto(r, q) ==
    /\ InRect(r, replicateBorder(q[1], q[2], r)[1], replicateBorder(q[1], q[2], r)[2])
    /\ InRect(r, q[1], q[2]) => replicateBorder(q[1], q[2], r) = q

\* C14: a worker that computes pixels reads a raster that is not empty, and
\* replicateBorder takes every point it asks for, and every point up to
\* MaxBorder outside the raster, to a point inside the raster's rectangle,
\* leaving the points inside where they are.
C14_InsideSource ==
    \A k \in DOMAIN workers :
        AtLine(k) =>
            /\ NonEmpty(Input(workers[k].pass).rect)
            /\ \A q \in TapPoints(workers[k], workers[k].y)
                      \cup Around(Input(workers[k].pass).rect) :
                  ClampedInto(Input(workers[k].pass).rect, q)

\* a worker asks for points before the near edge and beyond the far edge of
\* a raster that does not start at (0,0)
C14_Witness ==
    \E k \in DOMAIN workers :
        /\ AtLine(k)
        /\ Input(workers[k].pass).rect[1] # 0
        /\ \E q \in TapPoints(workers[k], workers[k].y) :
              q[1] < Input(workers[k].pass).rect[1]
        /\ \E q \in TapPoints(workers[k], workers[k].y) :
              q[1] >= Input(workers[k].pass).rect[3]

\* the dispatch loop of a pass is over (or was skipped)
DispatchOver(pass) ==
    /\ op \in {"Resize", "Crop"}
    /\ pc \in (IF pass = 1 THEN {"wait1", "pass2", "spawn2"} ELSE {})
             \cup {"wait2", "return", "done", "draw"}

\* the workers spawned for a pass
WorkersOf(pass) == {k \in DOMAIN workers : workers[k].pass = pass}

\* C16: each dispatch uses min(NumCPU, lines of the raster being written)
\* workers, the dispatch of the second pass, which writes the output image,
\* included.
C16_JobsPerPass ==
    \A pass \in 1..2 :
        DispatchOver(pass) =>
            Cardinality(WorkersOf(pass)) =
                (IF ncpu > Dy(Output(pass).rect) THEN Dy(Output(pass).rect) ELSE ncpu)

\* a positive float32 below 2^14 in units of 2^-16, cut to an integer
Fixed16(f) ==
    IF f[2] >= -16 THEN f[1] * 2^(f[2] + 16) ELSE f[1] \div 2^(-16 - f[2])

\* the source's and the output's size along axis a (1: x, 2: y)
OldDim(a) == img.rect[a + 2] - img.rect[a]

NewDimOf(a) == resultImg.rect[a + 2] - resultImg.rect[a]

\* q is an integer nearest to old / s, with s taken to 16 binary places
NearestTo(old, s, q) ==
    2 * Abs(old * 65536 - q * Fixed16(s)) <= Fixed16(s)

\* C18: each dimension of the output is old_dim / scale rounded to the
\* nearest integer.
C18_Nearest ==
    (Returned /\ NonEmpty(img.rect)) =>
        \A a \in 1..2 : NearestTo(OldDim(a), scale[a], NewDimOf(a))

\* the largest integer not above a finite float32 a with |a| < 2^31
F32Floor(a) ==
    IF a[1] < 0 /\ F32(F32Trunc(a)) # a THEN F32Trunc(a) - 1 ELSE F32Trunc(a)

\* C19: for the coordinate u of every line a worker computes, negative ones
\* included, the window starts at floor(u) - support/2 + 1, and the support
\* is even.
C19_WindowAtFloor ==
    \A k \in DOMAIN workers :
        AtLine(k) =>
            /\ FilterOf(workers[k]).sizeX % 2 = 0
            /\ WindowStart(FilterOf(workers[k]), Coordinate(workers[k], workers[k].y)) =
                  F32Floor(Coordinate(workers[k], workers[k].y))
                      - FilterOf(workers[k]).sizeX \div 2 + 1

\* a finite float32 f with |f| < 16 is a whole number of units of 2^-26
IsFix(f) ==
    \/ f[1] = 0
    \/ f[2] >= -26
    \/ f[2] >= -50 /\ Abs(f[1]) % 2^(-26 - f[2]) = 0

\* such an f in units of 2^-26, cut to the integer below
Fix(f) ==
    IF f[1] = 0 THEN 0
    ELSE IF f[2] >= -26 THEN f[1] * 2^(f[2] + 26)
    ELSE IF f[2] < -50 THEN (IF f[1] < 0 THEN -1 ELSE 0)
    ELSE IF f[1] > 0 THEN f[1] \div 2^(-26 - f[2])
    ELSE -((-f[1] + 2^(-26 - f[2]) - 1) \div 2^(-26 - f[2]))

\* the source's extent along the axis worker w resamples: [SrcMin, SrcMax)
SrcMin(w) == img.rect[w.pass]

SrcMax(w) == img.rect[w.pass + 2]

\* the number of output samples along that axis
NewLines(w) == Dy(Output(w.pass).rect)

\* worker w belongs to a dispatch over a source and an output that hold pixels
Sampling(w) == NonEmpty(img.rect) /\ NewLines(w) >= 1

\* u_first - min = (max - 1) - u_last, exactly. A coordinate that is not a
\* whole number of units is below 1/8 in size: if both are not, their sum is
\* below 1/4 in size and can only be the integer 0.
Symmetric(w) ==
    IF IsFix(Coordinate(w, 0)) /\ IsFix(Coordinate(w, NewLines(w) - 1))
    THEN Fix(Coordinate(w, 0)) + Fix(Coordinate(w, NewLines(w) - 1)) =
             (SrcMin(w) + SrcMax(w) - 1) * 2^26
    ELSE /\ ~IsFix(Coordinate(w, 0)) /\ ~IsFix(Coordinate(w, NewLines(w) - 1))
         /\ SrcMin(w) + SrcMax(w) - 1 = 0
         /\ Coordinate(w, 0) = F32Neg(Coordinate(w, NewLines(w) - 1))

\* the same within 2^-20
NearlySymmetric(w) ==
    Abs(Fix(Coordinate(w, 0)) + Fix(Coordinate(w, NewLines(w) - 1))
            - (SrcMin(w) + SrcMax(w) - 1) * 2^26) <= 2^6 + 2

\* every output sample's coordinate is strictly between min - 0.5 and max - 0.5
InsideExtent(w) ==
    \A y \in 0..(NewLines(w) - 1) :
        /\ F32Lt(F32Sub(F32(SrcMin(w)), Half32), Coordinate(w, y))
        /\ F32Lt(Coordinate(w, y), F32Sub(F32(SrcMax(w)), Half32))

MaxOld == 5

MaxNew == 8

\* the arguments `go resizeSlice(...)` evaluates for one job over all lines
SliceJob(old, new, min) ==
    [pass   |-> 1,
     scale  |-> calcFactors(new, 0, F32(old), One32)[1],
     adjust |-> Adjust(F32(old), calcFactors(new, 0, F32(old), One32)[1],
                       NewDim(F32(old), calcFactors(new, 0, F32(old), One32)[1], "amd64")),
     offset |-> F32(min),
     slice  |-> <<0, 0, 1, NewDim(F32(old), calcFactors(new, 0, F32(old), One32)[1], "amd64")>>,
     y      |-> 0,
     done   |-> FALSE]

InitWeights ==
    /\ op = "Weights"
    /\ pc = "wait1"
    /\ interp \in Interps
    /\ workers \in {<<SliceJob(old, new, min)>> :
                        old \in 1..MaxOld, new \in 1..MaxNew, min \in {0, 1}}
    /\ scale = <<Zero32, Zero32>>
    /\ adjust = Zero32
    /\ i = 0
    /\ c = 0
    /\ n = 1
    /\ ncpu = 1
    /\ arch = "amd64"
    /\ img = NoImage
    /\ width = 0
    /\ height = 0
    /\ cropArgs = <<0, 0>>
    /\ tempImg = NoImage
    /\ resultImg = NoImage
    /\ b = <<0, 0, 0, 0>>
    /\ dst = NoImage

\* f.weightSum after SetKernelWeights(u) for line y of worker w
WeightSum(w, y) ==
    SumWeights(KernelWeights(FilterOf(w), Coordinate(w, y)), FilterOf(w).sizeX)

\* u = scale*(float32(y)+adjust) + offset; filter.SetKernelWeights(u); y++
SetKernelWeights ==
    /\ pc = "wait1"
    /\ workers[1].y < workers[1].slice[4]
    /\ scale' = <<WeightSum(workers[1], workers[1].y), Zero32>>
    /\ workers' = [workers EXCEPT ![1].y = @ + 1]
    /\ i' = i + 1
    /\ UNCHANGED <<op, arch, ncpu, img, interp, width, height, cropArgs, pc,
                   adjust, tempImg, resultImg, b, n, c, dst>>

SpecWeights == InitWeights /\ [][SetKernelWeights]_vars

\* SetKernelWeights has been called
WeightsSet == op = "Weights" /\ i > 0

C22_KernelSymmetric ==
    (op = "Kernel" /\ pc = "done") => scale[1] = Kernel(interp, F32Neg(adjust))

(***************************************************************************)
(* The converters on their own (part_009): one pixel of an image of each   *)
(* kind createFilter knows, given by the bytes of its Pix (for YCbCr       *)
(* its Y, Cb and Cr samples), read by the converter createFilter picks for *)
(* the kind and by genericConverter.  img.pix holds the bytes; dst holds   *)
(* the two colorArrays once the converters have run.  image.Image.At,      *)
(* Color.RGBA and color.YCbCrToRGB are functions of Go's image library:    *)
(* for YCbCr they changed between library generations, and the model takes *)
(* both ("narrow": through 8 bits a channel, "wide": 16 bits a channel).   *)
(***************************************************************************)
ByteSamples == {0, 1, 2, 127, 128, 129, 254, 255}

Kinds == {"RGBA", "RGBA64", "Gray", "Gray16", "YCbCr"}

Libs == {"narrow", "wide"}

\* the bytes of one pixel of an image of kind k, made of bytes p, q and r
PixOf(k, p, q, r) ==
    CASE k = "RGBA"   -> <<p, q, 255 - p, 255 - q>>
      [] k = "RGBA64" -> <<p, q, q, p, 255 - p, q, p, 255 - q>>
      [] k = "Gray"   -> <<p>>
      [] k = "Gray16" -> <<p, q>>
      [] k = "YCbCr"  -> <<p, q, r>>

\* uint16(hi)<<8 | uint16(lo)
Join(hi, lo) == hi * 256 + lo

\* a sum of 16.16 fixed point cut to 8 bits, and to 16 bits, saturating
Top8(v) == IF v < 0 THEN 0 ELSE IF v >= 2^24 THEN 255 ELSE v \div 2^16

Top16(v) == IF v < 0 THEN 0 ELSE IF v >= 2^24 THEN 65535 ELSE v \div 2^8

\* color.YCbCrToRGB of the library: <<r, g, b>>, 8 bits each
YCbCrToRGB(lib, y, cb, cr) ==
    IF lib = "narrow"
    THEN <<Top8(y * 2^16 + 2^15 + 91881 * (cr - 128)),
           Top8(y * 2^16 + 2^15 - 22554 * (cb - 128) - 46802 * (cr - 128)),
           Top8(y * 2^16 + 2^15 + 116130 * (cb - 128))>>
    ELSE <<Top8(y * 65793 + 91881 * (cr - 128)),
           Top8(y * 65793 - 22554 * (cb - 128) - 46802 * (cr - 128)),
           Top8(y * 65793 + 116130 * (cb - 128))>>

\* color.YCbCr.RGBA of the library: <<r, g, b, a>>, 16 bits each
YCbCrRGBA(lib, y, cb, cr) ==
    IF lib = "narrow"
    THEN <<YCbCrToRGB(lib, y, cb, cr)[1] * 257, YCbCrToRGB(lib, y, cb, cr)[2] * 257,
           YCbCrToRGB(lib, y, cb, cr)[3] * 257, 65535>>
    ELSE <<Top16(y * 65793 + 91881 * (cr - 128)),
           Top16(y * 65793 - 22554 * (cb - 128) - 46802 * (cr - 128)),
           Top16(y * 65793 + 116130 * (cb - 128)),
           65535>>

\* c.src.At(x, y).RGBA() for a pixel of kind k with bytes pix
AtRGBA(lib, k, pix) ==
    CASE k = "RGBA"   -> <<Join(pix[1], pix[1]), Join(pix[2], pix[2]),
                           Join(pix[3], pix[3]), Join(pix[4], pix[4])>>
      [] k = "RGBA64" -> <<Join(pix[1], pix[2]), Join(pix[3], pix[4]),
                           Join(pix[5], pix[6]), Join(pix[7], pix[8])>>
      [] k = "Gray"   -> <<Join(pix[1], pix[1]), Join(pix[1], pix[1]),
                           Join(pix[1], pix[1]), 65535>>
      [] k = "Gray16" -> <<Join(pix[1], pix[2]), Join(pix[1], pix[2]),
                           Join(pix[1], pix[2]), 65535>>
      [] k = "YCbCr"  -> YCbCrRGBA(lib, pix[1], pix[2], pix[3])

\* genericConverter.at
genericConverter(lib, k, pix) ==
    <<F32(AtRGBA(lib, k, pix)[1]), F32(AtRGBA(lib, k, pix)[2]),
      F32(AtRGBA(lib, k, pix)[3]), F32(AtRGBA(lib, k, pix)[4])>>

rgbaConverter(pix) ==
    <<F32(Join(pix[1], pix[1])), F32(Join(pix[2], pix[2])),
      F32(Join(pix[3], pix[3])), F32(Join(pix[4], pix[4]))>>

rgba64Converter(pix) ==
    <<F32(Join(pix[1], pix[2])), F32(Join(pix[3], pix[4])),
      F32(Join(pix[5], pix[6])), F32(Join(pix[7], pix[8]))>>

grayConverter(pix) ==
    <<F32(Join(pix[1], pix[1])), F32(Join(pix[1], pix[1])),
      F32(Join(pix[1], pix[1])), F32(65535)>>

gray16Converter(pix) ==
    <<F32(Join(pix[1], pix[2])), F32(Join(pix[1], pix[2])),
      F32(Join(pix[1], pix[2])), F32(65535)>>

\* uint16(r) * 0x101 for the r, g, b of color.YCbCrToRGB
ycbcrConverter(lib, pix) ==
    <<F32((YCbCrToRGB(lib, pix[1], pix[2], pix[3])[1] * 257) % 65536),
      F32((YCbCrToRGB(lib, pix[1], pix[2], pix[3])[2] * 257) % 65536),
      F32((YCbCrToRGB(lib, pix[1], pix[2], pix[3])[3] * 257) % 65536),
      F32(65535)>>

\* the converter createFilter picks for an image of kind k
converterAt(lib, k, pix) ==
    CASE k = "RGBA"   -> rgbaConverter(pix)
      [] k = "RGBA64" -> rgba64Converter(pix)
      [] k = "Gray"   -> grayConverter(pix)
      [] k = "Gray16" -> gray16Converter(pix)
      [] k = "YCbCr"  -> ycbcrConverter(lib, pix)

InitConvert ==
    /\ op = "Convert"
    /\ pc = "convert"
    /\ img \in {[kind |-> k, rect |-> <<0, 0, 1, 1>>, pix |-> PixOf(k, p, q, r)] :
                    k \in Kinds, p \in ByteSamples, q \in ByteSamples, r \in ByteSamples}
    /\ dst = NoImage
    /\ scale = <<Zero32, Zero32>>
    /\ adjust = Zero32
    /\ interp = "NearestNeighbor"
    /\ arch = "amd64"
    /\ ncpu = 1
    /\ width = 0
    /\ height = 0
    /\ cropArgs = <<0, 0>>
    /\ tempImg = NoImage
    /\ resultImg = NoImage
    /\ b = <<0, 0, 0, 0>>
    /\ n = 0
    /\ i = 0
    /\ c = 0
    /\ workers = <<>>

\* f.at(0, 0, &c) with the converter of the image's kind and with
\* genericConverter, in a build with library lib
ConvertCall ==
    /\ pc = "convert"
    /\ \E lib \in Libs :
          dst' = [kind |-> lib, rect |-> img.rect,
                  fast    |-> converterAt(lib, img.kind, img.pix),
                  generic |-> genericConverter(lib, img.kind, img.pix)]
    /\ pc' = "done"
    /\ UNCHANGED <<op, arch, ncpu, img, interp, width, height, cropArgs, scale,
                   adjust, tempImg, resultImg, b, n, i, c, workers>>

SpecConvert == InitConvert /\ [][ConvertCall]_vars

Converted == op = "Convert" /\ pc = "done"

\* C23: the converter picked for a format returns the colour that
\* genericConverter returns for the same pixel; 8-bit samples v become 257*v,
\* 16-bit samples are read big-endian, and gray formats give R = G = B with
\* alpha 65535.
C23_SameAsGeneric ==
    Converted =>
        /\ dst.fast = dst.generic
        /\ img.kind = "RGBA" =>
              \A k \in 1..4 : dst.fast[k] = F32(257 * img.pix[k])
        /\ img.kind = "RGBA64" =>
              \A k \in 1..4 : dst.fast[k] = F32(256 * img.pix[2 * k - 1] + img.pix[2 * k])
        /\ img.kind \in {"Gray", "Gray16"} =>
              /\ dst.fast[1] = dst.fast[2] /\ dst.fast[2] = dst.fast[3]
              /\ dst.fast[4] = F32(65535)

(***************************************************************************)
(* clampToUint16 on its own: adjust holds the argument x and n the value   *)
(* returned.                                                               *)
(***************************************************************************)
ClampSteps == 24

\* quarters around 0 and around 65535, powers of two, infinities and NaN
ClampPoints ==
    {F32Div(F32(k), F32(4)) : k \in (-ClampSteps)..ClampSteps}
    \cup {F32Add(F32(65535), F32Div(F32(k), F32(4))) : k \in (-ClampSteps)..ClampSteps}
    \cup {F32(2^k) : k \in 0..20} \cup {F32(-(2^k)) : k \in 0..20}
    \cup {PosInf, NegInf, NaN}

InitClamp ==
    /\ op = "Clamp"
    /\ pc = "clamp"
    /\ adjust \in ClampPoints
    /\ n = 0
    /\ scale = <<Zero32, Zero32>>
    /\ interp = "NearestNeighbor"
    /\ arch = "amd64"
    /\ ncpu = 1
    /\ img = NoImage
    /\ width = 0
    /\ height = 0
    /\ cropArgs = <<0, 0>>
    /\ tempImg = NoImage
    /\ resultImg = NoImage
    /\ b = <<0, 0, 0, 0>>
    /\ i = 0
    /\ c = 0
    /\ workers = <<>>
    /\ dst = NoImage

\* y = clampToUint16(x)
ClampCall ==
    /\ pc = "clamp"
    /\ n' = clampToUint16(adjust)
    /\ pc' = "done"
    /\ UNCHANGED <<op, arch, ncpu, img, interp, width, height, cropArgs, scale,
                   adjust, tempImg, resultImg, b, i, c, workers, dst>>

SpecClamp == InitClamp /\ [][ClampCall]_vars

Clamped == op = "Clamp" /\ pc = "done"

\* C24: clampToUint16 returns a value in 0..65535: 0 for a negative x, 65535
\* for an x above 65534, and x cut to an integer otherwise; integers in
\* 0..65535 are returned as they are, and a larger x never gets a smaller
\* value.
C24_Saturates ==
    Clamped =>
        /\ n \in 0..65535
        /\ F32Lt(adjust, Zero32) => n = 0
        /\ F32Gt(adjust, F32(65534)) => n = 65535
        /\ (F32Ge(adjust, Zero32) /\ F32Le(adjust, F32(65534))) =>
              /\ F32Le(F32(n), adjust)
              /\ F32Lt(adjust, F32(n + 1))
        /\ \A v \in 0..65535 : adjust = F32(v) => n = v
        /\ \A z \in ClampPoints : F32Le(z, adjust) => clampToUint16(z) <= n

\* clampToUint16 has returned 65535 for an x above 65535
C24_Witness ==
    /\ Clamped
    /\ F32Gt(adjust, F32(65535))
    /\ n = 65535

(***************************************************************************)
(* tableKernel on its own (part_003): the look-up table of an analytic     *)
(* kernel, with the table size and the two values of maxX that Lanczos2Lut *)
(* and Lanczos3Lut pass.  interp is the analytic kernel, cropArgs[2] is    *)
(* maxX, adjust the argument x: plus or minus table node `width`           *)
(* (height = 1 or -1), or the point half a step after it (c = 1).  After   *)
(* the call scale holds <<table kernel(x), analytic kernel(x)>>, n the     *)
(* number of table entries read and b[1], b[2] their indices.              *)
(***************************************************************************)
lanczosTableSize == 300

TableBeyond == 8

TableKernels == {"Bilinear", "Bicubic", "MitchellNetravali"}

\* maxX * float32(i) / float32(tableSize)
TableNode(maxX, ts, k) == F32Div(F32Mul(maxX, F32(k)), F32(ts))

\* weights[k]
Weights(kernel, ts, maxX, k) ==
    IF k = ts THEN Zero32 ELSE Kernel(kernel, TableNode(maxX, ts, k))

\* indf as it would be without `if x < 0.0 { x = -x }`
IndfSigned(ts, maxX, x) == F32Mul(F32Div(x, maxX), F32(ts))

\* indf := x / maxX * float32(tableSize), x made positive
Indf(ts, maxX, x) == F32Mul(F32Div(F32Abs(x), maxX), F32(ts))

\* ind := int(indf)
Ind(ts, maxX, x) == F32Trunc(Indf(ts, maxX, x))

\* the function tableKernel returns, applied to x
tableKernel(kernel, ts, maxX, x) ==
    IF Ind(ts, maxX, x) >= ts THEN Zero32
    ELSE F32Add(Weights(kernel, ts, maxX, Ind(ts, maxX, x)),
                F32Mul(F32Sub(Weights(kernel, ts, maxX, Ind(ts, maxX, x) + 1),
                              Weights(kernel, ts, maxX, Ind(ts, maxX, x))),
                       F32Sub(Indf(ts, maxX, x), F32(Ind(ts, maxX, x)))))

\* the argument: node k or the point half a step after it, with sign sg
TablePoint(maxX, ts, k, half, sg) ==
    F32Mul(F32(sg),
           IF half = 0 THEN TableNode(maxX, ts, k)
           ELSE F32Add(TableNode(maxX, ts, k), F32Div(maxX, F32(2 * ts))))

InitTable ==
    /\ op = "Table"
    /\ pc = "table"
    /\ interp \in TableKernels
    /\ cropArgs \in {<<lanczosTableSize, 2>>, <<lanczosTableSize, 3>>}
    /\ width \in 0..(lanczosTableSize + TableBeyond)
    /\ height \in {1, -1}
    /\ c \in {0, 1}
    /\ adjust = TablePoint(F32(cropArgs[2]), cropArgs[1], width, c, height)
    /\ scale = <<Zero32, Zero32>>
    /\ b = <<0, 0, 0, 0>>
    /\ n = 0
    /\ i = 0
    /\ arch = "amd64"
    /\ ncpu = 1
    /\ img = NoImage
    /\ tempImg = NoImage
    /\ resultImg = NoImage
    /\ workers = <<>>
    /\ dst = NoImage

\* y = tableKernel(kernel, tableSize, maxX)(x)
TableKernelCall ==
    /\ pc = "table"
    /\ scale' = <<tableKernel(interp, cropArgs[1], F32(cropArgs[2]), adjust),
                  Kernel(interp, adjust)>>
    /\ IF Ind(cropArgs[1], F32(cropArgs[2]), adjust) >= cropArgs[1]
       THEN n' = 0 /\ b' = b
       ELSE /\ n' = 2
            /\ b' = <<Ind(cropArgs[1], F32(cropArgs[2]), adjust),
                      Ind(cropArgs[1], F32(cropArgs[2]), adjust) + 1, 0, 0>>
    /\ pc' = "done"
    /\ UNCHANGED <<op, arch, ncpu, img, interp, width, height, cropArgs, adjust,
                   tempImg, resultImg, i, c, workers, dst>>

SpecTable == InitTable /\ [][TableKernelCall]_vars

TableCalled == op = "Table" /\ pc = "done"

\* the argument is a table node below maxX
AtNode == c = 0 /\ width < cropArgs[1]

\* the table entries read have indices in 0..tableSize, and the value is 0
\* from maxX on
InsideTable ==
    /\ n > 0 => (0 <= b[1] /\ b[2] <= cropArgs[1])
    /\ F32Ge(F32Abs(adjust), F32(cropArgs[2])) => scale[1] = Zero32

AtOrigin(image) ==
    [image EXCEPT !.rect = <<0, 0, Dx(image.rect), Dy(image.rect)>>]

\* the arguments of one resizeSlice over all of raster r, for a source whose
\* bounds start at 0
WholeJob(pass, old, r) ==
    [pass   |-> pass,
     scale  |-> scale[pass],
     adjust |-> Adjust(F32(old), scale[pass], Dy(r)),
     offset |-> Zero32,
     slice  |-> r,
     y      |-> r[2],
     done   |-> FALSE]

\* the lines a pass over `input` writes into a raster with rectangle r
PassOver(pass, old, input, r) ==
    [y \in Lines(r) |-> Runs(RowOf(WholeJob(pass, old, r), input, y))]

\* C26: Resize returns for a source what it returns for the source with the
\* same pixels and bounds that start at (0,0): the intermediate raster is
\* the first pass over that source, and the output the second pass over the
\* intermediate raster.
C26_BoundsIndependent ==
    (Returned /\ NonEmpty(img.rect) /\ NonEmpty(resultImg.rect)) =>
        /\ tempImg.pix = PassOver(1, Dx(img.rect), AtOrigin(img), tempImg.rect)
        /\ resultImg.pix = PassOver(2, Dy(img.rect), tempImg, resultImg.rect)

\* the number of workers of a pass that have sent their signal
SignalsOf(pass) == Cardinality({k \in WorkersOf(pass) : workers[k].done})

\* worker k has written every line of its band
Finished(k) == workers[k].y >= workers[k].slice[4]

\* C27: while a worker of the second pass exists, every worker of the first
\* pass has written its band and sent its signal; the dispatcher has received
\* every signal of the first pass before it goes on, so the signals in the
\* channel are those of the workers of the current pass that it has not yet
\* received.
C27_PassesInOrder ==
    /\ \A k \in WorkersOf(2) : \A l \in WorkersOf(1) : workers[l].done /\ Finished(l)
    /\ pc = "spawn1" => c = SignalsOf(1)
    /\ pc = "wait1" => c + i = SignalsOf(1)
    /\ pc \in {"pass2", "spawn2"} =>
          /\ SignalsOf(1) = Cardinality(WorkersOf(1))
          /\ c = SignalsOf(2)
    /\ pc = "wait2" => c + i = SignalsOf(2)

\* a worker of the second pass runs after two workers of the first pass
\* have written the intermediate raster
C27_Witness ==
    /\ Cardinality(WorkersOf(1)) > 1
    /\ \E k \in WorkersOf(2) : Running(k) /\ workers[k].y > workers[k].slice[2]
    /\ \A l \in WorkersOf(1) : workers[l].done

(***************************************************************************)
(* The first pass of Resize with the calls on the Filter as steps: each    *)
(* worker calls filter.SetKernelWeights(u) once a line and then            *)
(* filter.Interpolate(u, x) for every x of the line.  dst holds the        *)
(* filters: dst.cache[f] is what filter instance f has cached (the u of    *)
(* the last SetKernelWeights, kernelWeight and weightSum), dst.pos[k] is   *)
(* where worker k is in its line (set: SetKernelWeights has been called    *)
(* for the line; x: the next column).                                      *)
(***************************************************************************)
NoWeights == [u |-> NaN, kw |-> <<>>, sum |-> Zero32]

NoFilters ==
    [kind |-> "filters", rect |-> <<0, 0, 0, 0>>,
     cache |-> [k \in 1..MaxCPU |-> NoWeights],
     pos   |-> [k \in 1..MaxCPU |-> [set |-> FALSE, x |-> 0]]]

FilterImages == {Image("RGBA64", o, w, 2, Grid) : o \in Origins, w \in 1..MaxDim}

\* the filter instances as they would be if the workers shared one
FilterShared(k) == 1

\* `filter := interp(input, ...)` in resizeSlice: worker k has its own
FilterInstance(k) == k

InitFilter ==
    /\ op = "Filter"
    /\ pc = "resize"
    /\ cropArgs = <<0, 0>>
    /\ img \in FilterImages
    /\ arch = "amd64"
    /\ interp \in Interps
    /\ ncpu \in 1..MaxCPU
    /\ width \in 1..MaxOut
    /\ height = 0
    /\ scale = <<Zero32, Zero32>>
    /\ adjust = Zero32
    /\ tempImg = NoImage
    /\ resultImg = NoImage
    /\ b = <<0, 0, 0, 0>>
    /\ n = 0
    /\ i = 0
    /\ c = 0
    /\ workers = <<>>
    /\ dst = NoFilters

\* what SetKernelWeights(u) caches for line y of worker w
WeightsFor(w, y) ==
    [u   |-> Coordinate(w, y),
     kw  |-> KernelWeights(FilterOf(w), Coordinate(w, y)),
     sum |-> WeightSum(w, y)]

\* output.Pix[i+0..i+7] = ...: pixel (x, y) of output becomes px
WritePixel(output, y, x, px) ==
    [output EXCEPT !.pix[y] =
        Runs([xx \in output.rect[1]..(output.rect[3] - 1) |->
                 IF xx = x THEN px ELSE RunAt(output.pix[y], xx)])]

\* u = scale*(float32(y)+adjust) + offset; filter.SetKernelWeights(u)
FilterSet(k) ==
    /\ k \in DOMAIN workers
    /\ ~workers[k].done
    /\ workers[k].y < workers[k].slice[4]
    /\ ~dst.pos[k].set
    /\ IF workers[k].slice[1] < workers[k].slice[3]
       THEN /\ dst' = [dst EXCEPT
                          !.cache[FilterInstance(k)] = WeightsFor(workers[k], workers[k].y),
                          !.pos[k] = [set |-> TRUE, x |-> workers[k].slice[1]]]
            /\ UNCHANGED workers
       ELSE /\ dst' = [dst EXCEPT
                          !.cache[FilterInstance(k)] = WeightsFor(workers[k], workers[k].y)]
            /\ workers' = [workers EXCEPT ![k].y = @ + 1]
    /\ UNCHANGED <<op, arch, ncpu, img, interp, width, height, cropArgs, pc,
                   scale, adjust, tempImg, resultImg, b, n, i, c>>

\* color = filter.Interpolate(u, x) and the write of the pixel; x++, and y++
\* after the last column
FilterInterpolate(k) ==
    /\ k \in DOMAIN workers
    /\ ~workers[k].done
    /\ dst.pos[k].set
    /\ dst.pos[k].x < workers[k].slice[3]
    /\ tempImg' = WritePixel(tempImg, workers[k].y, dst.pos[k].x,
                             Interpolate(FilterOf(workers[k]),
                                         dst.cache[FilterInstance(k)].kw,
                                         dst.cache[FilterInstance(k)].sum,
                                         Coordinate(workers[k], workers[k].y),
                                         dst.pos[k].x))
    /\ IF dst.pos[k].x + 1 < workers[k].slice[3]
       THEN /\ dst' = [dst EXCEPT !.pos[k].x = @ + 1]
            /\ UNCHANGED workers
       ELSE /\ dst' = [dst EXCEPT !.pos[k].set = FALSE]
            /\ workers' = [workers EXCEPT ![k].y = @ + 1]
    /\ UNCHANGED <<op, arch, ncpu, img, interp, width, height, cropArgs, pc,
                   scale, adjust, resultImg, b, n, i, c>>

NextFilter ==
    \/ ResizeCall
    \/ Spawn(1)
    \/ \E k \in DOMAIN workers : FilterSet(k)
    \/ \E k \in DOMAIN workers : FilterInterpolate(k)
    \/ \E k \in DOMAIN workers : WorkerSend(k)
    \/ Receive(1)

SpecFilter == InitFilter /\ [][NextFilter]_vars

\* worker k is in the x loop of a line: its next call is Interpolate(u, x)
Interpolating(k) ==
    /\ op = "Filter"
    /\ k \in DOMAIN workers
    /\ ~workers[k].done
    /\ dst.pos[k].set

\* C28: when a worker calls Interpolate(u, x), its filter holds the weights
\* and the weight sum SetKernelWeights computed for this u, and between the
\* calls of Interpolate for one line the filter's cache does not change.
C28_WeightsOfThisLine ==
    /\ [](\A k \in DOMAIN workers :
            Interpolating(k) =>
                dst.cache[FilterInstance(k)] = WeightsFor(workers[k], workers[k].y))
    /\ [][\A k \in DOMAIN workers :
            (Interpolating(k) /\ Interpolating(k)' /\ workers'[k].y = workers[k].y) =>
                dst'.cache[FilterInstance(k)] = dst.cache[FilterInstance(k)]]_vars

\* two workers are in the x loops of their lines, with different weights
\* cached, and one of them has already interpolated a pixel
C28_Witness ==
    \E k, l \in DOMAIN workers :
        /\ k # l /\ Interpolating(k) /\ Interpolating(l)
        /\ dst.cache[FilterInstance(k)] # dst.cache[FilterInstance(l)]
        /\ dst.pos[k].x > workers[k].slice[1]

(***************************************************************************)
(* Resize of long, thin images with one of width and height left 0.        *)
(***************************************************************************)
MaxWide == 5

WideImages ==
    {Image("RGBA", <<0, 0>>, w, 1, [name |-> "uniform", a |-> SameColor]) : w \in 1..MaxWide}
    \cup {Image("RGBA", <<0, 0>>, 1, h, [name |-> "uniform", a |-> SameColor]) : h \in 1..MaxWide}

InitWide ==
    /\ op = "Resize"
    /\ pc = "resize"
    /\ cropArgs = <<0, 0>>
    /\ img \in WideImages
    /\ arch = "amd64"
    /\ interp \in {"NearestNeighbor", "Bilinear"}
    /\ ncpu = 1
    /\ \E wh \in {<<w, 0>> : w \in 1..MaxOut} \cup {<<0, h>> : h \in 1..MaxOut} :
           width = wh[1] /\ height = wh[2]
    /\ InitCommon

SpecWide == InitWide /\ [][NextResize]_vars

\* C29: for a source that holds pixels and a call with exactly one of width
\* and height 0, the image Resize returns holds pixels.
C29_DerivedAtLeastOne ==
    (Returned /\ NonEmpty(img.rect) /\ ((width = 0) # (height = 0))) =>
        NonEmpty(resultImg.rect)

(***************************************************************************)
(* Resize under fair scheduling: the Go scheduler runs every goroutine     *)
(* that can take a step, the dispatcher and each worker alike.             *)
(***************************************************************************)
\* the goroutine that called Resize
Dispatcher ==
    \/ ResizeCall
    \/ \E pass \in 1..2 : Spawn(pass)
    \/ \E pass \in 1..2 : Receive(pass)
    \/ Pass2
    \/ Return

\* the goroutine of job k
Worker(k) == WorkerRow(k) \/ WorkerSend(k)

\* sources of every size, the ones without pixels included
FairImages ==
    {Image("RGBA", <<0, 0>>, w, h, [name |-> "uniform", a |-> SameColor]) :
        w \in 0..MaxDim, h \in 0..MaxDim}

InitFair ==
    /\ op = "Resize"
    /\ pc = "resize"
    /\ cropArgs = <<0, 0>>
    /\ img \in FairImages
    /\ arch \in (IF Points(img.rect) = {} THEN Archs ELSE {"amd64"})
    /\ interp = "NearestNeighbor"
    /\ ncpu \in 1..MaxCPU
    /\ width \in 0..MaxOut
    /\ height \in 0..MaxOut
    /\ InitCommon

\* the dispatcher can take a step: it blocks only in <-c on an empty channel
DispatcherReady ==
    \/ pc \in {"resize", "pass2", "return"}
    \/ pc \in {"spawn1", "spawn2"} /\ i < n
    \/ pc \in {"wait1", "wait2"} /\ i < n /\ c > 0

DispatcherPcs ==
    {"resize", "spawn1", "wait1", "pass2", "spawn2", "wait2", "return", "done",
     "panic", "unbounded"}

\* a step of Dispatcher, told by what every such step does and no step of a
\* worker does: it moves on in the code of Resize or in one of its loops
DispatcherRuns ==
    /\ DispatcherReady
    /\ pc' \in DispatcherPcs
    /\ i' \in 0..MaxCPU
    /\ <<pc', i'>> # <<pc, i>>

\* a step of Worker(k), told by its own record: one more line, or the signal
WorkerRuns(k) ==
    /\ k \in DOMAIN workers
    /\ ~workers[k].done
    /\ IF workers[k].y < workers[k].slice[4]
       THEN workers' = [workers EXCEPT ![k].y = @ + 1]
       ELSE c < n /\ workers' = [workers EXCEPT ![k].done = TRUE]

\* Dispatcher and DispatcherRuns, Worker(k) and WorkerRuns(k) are the same
\* steps of NextResize
SameSteps ==
    [][/\ Dispatcher <=> DispatcherRuns
       /\ \A k \in 1..(2 * MaxCPU) : Worker(k) <=> WorkerRuns(k)]_vars

Fairness ==
    /\ WF_<<pc, i>>(DispatcherRuns)
    /\ \A k \in 1..(2 * MaxCPU) : WF_workers(WorkerRuns(k))

SpecFair == InitFair /\ [][NextResize]_vars /\ Fairness

\* a worker that has written its band can send its signal at once
NotBlocked ==
    \A k \in DOMAIN workers :
        (~workers[k].done /\ workers[k].y >= workers[k].slice[4]) => c < n

\* the dispatcher has received one signal from every worker it spawned
AllReceived ==
    /\ c = 0
    /\ \A k \in DOMAIN workers : workers[k].done
    /\ Len(workers) = 2 * n

Signalling ==
    /\ NotBlocked
    /\ c <= n
    /\ pc \in {"spawn1", "wait1", "spawn2", "wait2"} => n > 0
    /\ pc = "done" => AllReceived

\* C30: under fair scheduling every call of Resize returns; no worker ever
\* waits to send its one signal, the channel never holds more than n signals,
\* the dispatcher receives as many signals as it spawned workers, and it
\* waits for nothing when it spawned none.
C30_Terminates == [](Signalling) /\ <>(pc = "done")

====
